---- MODULE Spec2Model ----
(***************************************************************************)
(* Model of memora's think pipeline (ThinkOperationsMixin):                *)
(*   think_async                        - retrieval, partition, generation,*)
(*                                        task submission, ThinkResult     *)
(*   _extract_and_store_opinions_async  - the form_opinion background task *)
(*   _extract_opinions_from_text        - schema-constrained extraction    *)
(*   run_migrations (migrations.py)    - the schema upgrade at startup     *)
(* The Fact Retriever, the Fact Store and the Task Backend are the         *)
(* collaborators the mixin calls; they are modelled at their boundary.     *)
(* Strings are sequences of tokens, so trimming and formatting are         *)
(* computed and not assumed.                                               *)
(***************************************************************************)
EXTENDS Integers, Sequences, FiniteSets, TLC

\* ---------------------------------------------------------------- bounds
MaxResults == 2      \* length of a retrieval result
MaxCandidates == 2   \* opinions returned by one extraction call
MaxExec == 2         \* executions the Task Backend performs in one behaviour

\* think invocations, which may be in flight together
Calls == {1, 2}

\* an absent value is the empty sequence, a present one a sequence of one
None == <<>>
Some(v) == <<v>>
Agents == {"a1", "a2"}
\* queries are opaque to the code: the n-th invocation takes one of the first n
Queries == <<"q1", "q2">>
QueriesFor(i) == { Queries[n] : n \in { m \in DOMAIN Queries : m <= i } }
\* exceptions the collaborators raise
Errs == {"ConnectionError", "RateLimitError"}

\* ------------------------------------------------------------- strings
IsSpace(c) == c = " "

RECURSIVE LStrip(_)
LStrip(s) == IF s = <<>> THEN s
             ELSE IF IsSpace(Head(s)) THEN LStrip(Tail(s)) ELSE s

RECURSIVE RStrip(_)
RStrip(s) == IF s = <<>> THEN s
             ELSE IF IsSpace(s[Len(s)]) THEN RStrip(SubSeq(s, 1, Len(s) - 1)) ELSE s

\* str.strip()
Strip(s) == RStrip(LStrip(s))

\* texts the generation call may return, before trimming
RawAnswers == { <<"I", " ", "believe">>, <<" ", "I", " ", "believe", " ">>, <<" ">> }

\* ---------------------------------------------------------------- facts
\* mutant: the fused search leaves the opinions out
SearchFactTypesWithoutOpinion == <<"agent", "world">>

\* fact_type=['agent', 'world', 'opinion'] of the fused search
SearchFactTypes == <<"agent", "world", "opinion">>

Range(s) == { s[k] : k \in DOMAIN s }

\* the Fact Store before the first call
SeedStore ==
  << [id |-> 1, agent_id |-> "a1", text |-> <<"f1">>, fact_type |-> "agent",
      context |-> <<>>, event_date |-> None, activation |-> None,
      confidence |-> None],
     [id |-> 2, agent_id |-> "a2", text |-> <<"f2">>, fact_type |-> "world",
      context |-> <<"work info">>, event_date |-> Some("2024-01-15T10:30:00Z"),
      activation |-> Some(95), confidence |-> None] >>

\* a Fact Store that also holds opinions formed by earlier thinking
RichStore ==
  SeedStore \o
  << [id |-> 3, agent_id |-> "a1", text |-> <<"f3">>, fact_type |-> "opinion",
      context |-> <<"formed during thinking about: ", "q0">>,
      event_date |-> Some("current_time"), activation |-> Some(40),
      confidence |-> Some(80)],
     [id |-> 4, agent_id |-> "a1", text |-> <<"f4">>, fact_type |-> "opinion",
      context |-> <<"formed during thinking about: ", "q0">>,
      event_date |-> Some("current_time"), activation |-> None,
      confidence |-> Some(30)] >>

\* MemoryFact: the view of a stored fact that search returns
MemoryFact(f) == [id |-> f.id, text |-> f.text, fact_type |-> f.fact_type,
                  context |-> f.context, event_date |-> f.event_date,
                  activation |-> f.activation]

RECURSIVE DistinctSeqs(_, _)
DistinctSeqs(S, n) ==
  IF n = 0 THEN { <<>> }
  ELSE { <<>> } \cup
       UNION { { <<x>> \o t : t \in DistinctSeqs(S \ {x}, n - 1) } : x \in S }

VARIABLES
  llm_config,   \* self._llm_config: "configured" or None
  store,        \* the Fact Store: sequence of persisted facts
  origin,       \* history: origin[k] = the call whose task wrote store[k], 0 for seeds
  pc,           \* pc[i]: position of think invocation i
  arg,          \* arg[i]: [agent_id, query] of invocation i
  all_results,  \* all_results[i]: search_result.results
  answer_text,  \* answer_text[i]: the trimmed answer
  result,       \* result[i]: the ThinkResult returned, or None
  error,        \* error[i]: the exception think raised, or None
  trace,        \* history: the awaited calls of invocation i with their outcomes,
                \* and its return
  submitted,    \* Task Backend: submitted[i] = descriptor accepted from invocation i
  execs         \* Task Backend: the executions of the handler started so far,
                \* each with the candidates its extraction call returned and
                \* the put calls it made (history)

\* migrations.py
VARIABLES
  alembic_ini,  \* whether project_root / "alembic.ini" exists
  db_revision,  \* the schema revision of the database
  run           \* run[r]: the call of run_migrations of instance r

think_vars == << llm_config, store, origin, pc, arg, all_results, answer_text,
                 result, error, trace, submitted, execs >>

mig_vars == << alembic_ini, db_revision, run >>

vars == << llm_config, store, origin, pc, arg, all_results, answer_text, result,
           error, trace, submitted, execs, alembic_ini, db_revision, run >>

\* instances of the service that start, each calling run_migrations once
Runs == {1, 2}
DatabaseUrls == {"postgresql://db1", "postgresql://db2"}

\* no call of run_migrations has been made
RunIdle == [pc |-> "idle", database_url |-> None, upgrade_called |-> FALSE,
            exc |-> None]

\* the migrations were run before the service took calls
MigrationsDone ==
  /\ alembic_ini = TRUE
  /\ db_revision = "head"
  /\ run = [r \in Runs |-> RunIdle]

InitWith(seed) ==
  /\ llm_config \in { Some("configured"), None }
  /\ store = seed
  /\ origin = [k \in DOMAIN seed |-> 0]
  /\ pc = [i \in Calls |-> "idle"]
  /\ arg = [i \in Calls |-> None]
  /\ all_results = [i \in Calls |-> <<>>]
  /\ answer_text = [i \in Calls |-> <<>>]
  /\ result = [i \in Calls |-> None]
  /\ error = [i \in Calls |-> None]
  /\ trace = [i \in Calls |-> <<>>]
  /\ submitted = [i \in Calls |-> None]
  /\ execs = <<>>

Init == InitWith(SeedStore) /\ MigrationsDone

\* one invocation against a store that already holds opinions
InitOne == InitWith(RichStore) /\ MigrationsDone

\* ------------------------------------------------------- think_async
\* history: the facts in the store written for the descriptor of invocation i
PersistedBy(i) == { k \in DOMAIN store : origin[k] = i }

\* mutant: the configuration check is left out
LlmConfigNeverMissing == FALSE

\* if self._llm_config is None
LlmConfigMissing == llm_config = None

\* search_async(agent_id, query, ..., fact_type=types): the ranked lists the
\* Fact Retriever may return: distinct facts of the agent, of the requested types
SearchAsync(agent_id, types) ==
  LET hits == { MemoryFact(store[k]) : k \in { j \in DOMAIN store :
                  /\ store[j].agent_id = agent_id
                  /\ store[j].fact_type \in Range(types) } }
  IN DistinctSeqs(hits, MaxResults)

\* [r for r in all_results if r.fact_type == 'agent']
AgentResults(all) == SelectSeq(all, LAMBDA r : r.fact_type = "agent")

\* mutant: the world filter is a copy of the agent filter
WorldResultsCopied(all) == SelectSeq(all, LAMBDA r : r.fact_type = "agent")

\* [r for r in all_results if r.fact_type == 'world']
WorldResults(all) == SelectSeq(all, LAMBDA r : r.fact_type = "world")

\* [r for r in all_results if r.fact_type == 'opinion']
OpinionResults(all) == SelectSeq(all, LAMBDA r : r.fact_type = "opinion")

\* one fact_obj of format_facts: absent fields are left out
FactObj(f) ==
  [text |-> f.text]
    @@ (IF f.context # <<>> THEN [context |-> f.context] ELSE <<>>)
    @@ (IF f.event_date # None THEN [event_date |-> f.event_date[1]] ELSE <<>>)
    @@ (IF f.activation # None THEN [score |-> f.activation[1]] ELSE <<>>)

\* format_facts(facts)
FormatFacts(facts) ==
  IF facts = <<>> THEN <<>> ELSE [k \in DOMAIN facts |-> FactObj(facts[k])]

\* the grounding prompt: agent facts, world facts, opinions, then the question
Prompt(all, query) ==
  [agent |-> FormatFacts(AgentResults(all)),
   world |-> FormatFacts(WorldResults(all)),
   opinion |-> FormatFacts(OpinionResults(all)),
   question |-> query]

\* mutant: the descriptor carries the answer as it was before the trim
TaskDescriptorUntrimmed(agent_id, text, query) ==
  [type |-> "form_opinion", agent_id |-> agent_id,
   answer_text |-> <<" ">> \o text \o <<" ">>, query |-> query]

\* the descriptor given to submit_task
TaskDescriptor(agent_id, text, query) ==
  [type |-> "form_opinion", agent_id |-> agent_id, answer_text |-> text,
   query |-> query]

\* mutant: the agent and world lists are filed under each other's key
BasedOnSwapped(all) ==
  [world |-> AgentResults(all), agent |-> WorldResults(all),
   opinion |-> OpinionResults(all)]

\* based_on={"world": ..., "agent": ..., "opinion": ...}
BasedOn(all) ==
  [world |-> WorldResults(all), agent |-> AgentResults(all),
   opinion |-> OpinionResults(all)]

\* mutant: the result lists the opinions already persisted for this invocation
NewOpinionsPersisted(i) ==
  LET mine == SelectSeq([k \in DOMAIN store |-> k], LAMBDA k : origin[k] = i)
  IN [n \in DOMAIN mine |-> store[mine[n]].text]

\* new_opinions=[]
NewOpinions(i) == <<>>

\* mutant: the result carries what the executions of its task have extracted
ThinkResultWithExtracted(i) ==
  LET mine == SelectSeq(execs, LAMBDA x : x.task = i)
  IN [text |-> answer_text[i], based_on |-> BasedOn(all_results[i]),
      new_opinions |-> [n \in DOMAIN mine |-> mine[n].new_opinions]]

\* ThinkResult(text=answer_text, based_on=..., new_opinions=[])
ThinkResult(i) ==
  [text |-> answer_text[i], based_on |-> BasedOn(all_results[i]),
   new_opinions |-> NewOpinions(i)]

\* mutant: the retrieval error is wrapped
SearchErrorWrapped(e) == "RuntimeError"

\* an exception raised inside think_async by search_async: no handler, it
\* leaves think_async as it is
SearchErrorRaised(e) == e

\* mutant: a failed generation falls through to the submission
AfterGenerationErrorFallsThrough == "submit"

\* position of think after a failed generation call: no handler
AfterGenerationError == "failed"

\* position of think after a failed submit_task: no handler
AfterSubmitError == "failed"

\* mutant: the generation call is issued without waiting for the retrieval
ThinkAsyncGeneratingFirst(i, agent_id, query) ==
  /\ pc[i] = "idle"
  /\ \A j \in Calls : j < i => pc[j] # "idle"
  /\ arg' = [arg EXCEPT ![i] = Some([agent_id |-> agent_id, query |-> query])]
  /\ IF LlmConfigMissing
       THEN /\ error' = [error EXCEPT ![i] = Some("ValueError")]
            /\ pc' = [pc EXCEPT ![i] = "failed"]
       ELSE /\ pc' \in { [pc EXCEPT ![i] = "search"], [pc EXCEPT ![i] = "generate"] }
            /\ UNCHANGED error
  /\ UNCHANGED mig_vars
  /\ UNCHANGED << llm_config, store, origin, all_results, answer_text, result,
                  trace, submitted, execs >>

\* the call starts and checks the configuration (no suspension point between)
ThinkAsync(i, agent_id, query) ==
  /\ pc[i] = "idle"
  /\ \A j \in Calls : j < i => pc[j] # "idle"
  /\ arg' = [arg EXCEPT ![i] = Some([agent_id |-> agent_id, query |-> query])]
  /\ IF LlmConfigMissing
       THEN /\ error' = [error EXCEPT ![i] = Some("ValueError")]
            /\ pc' = [pc EXCEPT ![i] = "failed"]
       ELSE /\ pc' = [pc EXCEPT ![i] = "search"]
            /\ UNCHANGED error
  /\ UNCHANGED mig_vars
  /\ UNCHANGED << llm_config, store, origin, all_results, answer_text, result,
                  trace, submitted, execs >>

\* mutant: an empty retrieval result ends think with an error
SearchRejectingEmpty(i) ==
  /\ pc[i] = "search"
  /\ LET call == [op |-> "search", agent_id |-> arg[i][1].agent_id,
                  fact_type |-> SearchFactTypes]
     IN \/ \E rs \in SearchAsync(arg[i][1].agent_id, SearchFactTypes) :
             /\ all_results' = [all_results EXCEPT ![i] = rs]
             /\ trace' = [trace EXCEPT ![i] = Append(@, call @@ [out |-> "ok"])]
             /\ IF rs = <<>>
                  THEN /\ pc' = [pc EXCEPT ![i] = "failed"]
                       /\ error' = [error EXCEPT ![i] = Some("ValueError")]
                  ELSE /\ pc' = [pc EXCEPT ![i] = "generate"]
                       /\ UNCHANGED error
        \/ \E e \in Errs :
             /\ trace' = [trace EXCEPT ![i] = Append(@, call @@ [out |-> e])]
             /\ error' = [error EXCEPT ![i] = Some(SearchErrorRaised(e))]
             /\ pc' = [pc EXCEPT ![i] = "failed"]
             /\ UNCHANGED all_results
  /\ UNCHANGED mig_vars
  /\ UNCHANGED << llm_config, store, origin, arg, answer_text, result,
                  submitted, execs >>

\* await self.search_async(...) returns or raises
Search(i) ==
  /\ pc[i] = "search"
  /\ LET call == [op |-> "search", agent_id |-> arg[i][1].agent_id,
                  fact_type |-> SearchFactTypes]
     IN \/ \E rs \in SearchAsync(arg[i][1].agent_id, SearchFactTypes) :
             /\ all_results' = [all_results EXCEPT ![i] = rs]
             /\ trace' = [trace EXCEPT ![i] = Append(@, call @@ [out |-> "ok"])]
             /\ pc' = [pc EXCEPT ![i] = "generate"]
             /\ UNCHANGED error
        \/ \E e \in Errs :
             /\ trace' = [trace EXCEPT ![i] = Append(@, call @@ [out |-> e])]
             /\ error' = [error EXCEPT ![i] = Some(SearchErrorRaised(e))]
             /\ pc' = [pc EXCEPT ![i] = "failed"]
             /\ UNCHANGED all_results
  /\ UNCHANGED mig_vars
  /\ UNCHANGED << llm_config, store, origin, arg, answer_text, result,
                  submitted, execs >>

\* await self._llm_config.call(..., scope="memory_think") returns or raises;
\* answer_text = answer_text.strip(). An exception ends the call and its locals.
Generate(i) ==
  /\ pc[i] = "generate"
  /\ LET call == [op |-> "llm"]
     IN \/ \E raw \in RawAnswers :
             /\ answer_text' = [answer_text EXCEPT ![i] = Strip(raw)]
             /\ trace' = [trace EXCEPT ![i] = Append(@, call @@ [out |-> "ok"])]
             /\ pc' = [pc EXCEPT ![i] = "submit"]
             /\ UNCHANGED << error, all_results >>
        \/ \E e \in Errs :
             /\ trace' = [trace EXCEPT ![i] = Append(@, call @@ [out |-> e])]
             /\ error' = [error EXCEPT ![i] = Some(e)]
             /\ pc' = [pc EXCEPT ![i] = AfterGenerationError]
             /\ all_results' = [all_results EXCEPT ![i] = <<>>]
             /\ UNCHANGED answer_text
  /\ UNCHANGED mig_vars
  /\ UNCHANGED << llm_config, store, origin, arg, result, submitted, execs >>

\* await self._task_backend.submit_task({...}) is accepted or raises
SubmitTask(i) ==
  /\ pc[i] = "submit"
  /\ LET task == TaskDescriptor(arg[i][1].agent_id, answer_text[i], arg[i][1].query)
         call == [op |-> "submit"]
     IN \/ /\ submitted' = [submitted EXCEPT ![i] = Some(task)]
           /\ trace' = [trace EXCEPT ![i] = Append(@, call @@ [out |-> "ok"])]
           /\ pc' = [pc EXCEPT ![i] = "return"]
           /\ UNCHANGED << error, all_results, answer_text >>
        \/ \E e \in Errs :
             /\ trace' = [trace EXCEPT ![i] = Append(@, call @@ [out |-> e])]
             /\ error' = [error EXCEPT ![i] = Some(e)]
             /\ pc' = [pc EXCEPT ![i] = AfterSubmitError]
             /\ all_results' = [all_results EXCEPT ![i] = <<>>]
             /\ answer_text' = [answer_text EXCEPT ![i] = <<>>]
             /\ UNCHANGED submitted
  /\ UNCHANGED mig_vars
  /\ UNCHANGED << llm_config, store, origin, arg, result, execs >>

\* mutant: think returns only once an execution of its task has finished
ReturnAfterTask(i) ==
  /\ pc[i] = "return"
  /\ \E k \in DOMAIN execs : execs[k].task = i /\ execs[k].pc = "done"
  /\ result' = [result EXCEPT ![i] = Some(ThinkResult(i))]
  /\ trace' = [trace EXCEPT ![i] =
       Append(@, [op |-> "return", out |-> "ok", persisted |-> PersistedBy(i) # {}])]
  /\ pc' = [pc EXCEPT ![i] = "done"]
  /\ UNCHANGED mig_vars
  /\ UNCHANGED << llm_config, store, origin, arg, all_results, answer_text,
                  error, submitted, execs >>

\* mutant: the facts of the result are retrieved again when think returns
ReturnRetrievingAgain(i) ==
  /\ pc[i] = "return"
  /\ \E rs \in SearchAsync(arg[i][1].agent_id, SearchFactTypes) :
       /\ all_results' = [all_results EXCEPT ![i] = rs]
       /\ result' = [result EXCEPT ![i] =
            Some([text |-> answer_text[i], based_on |-> BasedOn(rs),
                  new_opinions |-> NewOpinions(i)])]
  /\ trace' = [trace EXCEPT ![i] =
       Append(@, [op |-> "return", out |-> "ok", persisted |-> PersistedBy(i) # {}])]
  /\ pc' = [pc EXCEPT ![i] = "done"]
  /\ UNCHANGED mig_vars
  /\ UNCHANGED << llm_config, store, origin, arg, answer_text, error, submitted,
                  execs >>

\* think_async resumes after the submission and returns the ThinkResult
Return(i) ==
  /\ pc[i] = "return"
  /\ result' = [result EXCEPT ![i] = Some(ThinkResult(i))]
  /\ trace' = [trace EXCEPT ![i] =
       Append(@, [op |-> "return", out |-> "ok", persisted |-> PersistedBy(i) # {}])]
  /\ pc' = [pc EXCEPT ![i] = "done"]
  /\ UNCHANGED mig_vars
  /\ UNCHANGED << llm_config, store, origin, arg, all_results, answer_text,
                  error, submitted, execs >>

\* ---------------------------------------- _extract_opinions_from_text
\* Opinion objects the schema-constrained call may return, most salient first
\* (confidence in hundredths; the schema declares a float and no range)
OpinionList ==
  << [opinion |-> <<"o1">>, reasons |-> <<"r1">>, confidence |-> 85],
     [opinion |-> <<"o2">>, reasons |-> <<"r2">>, confidence |-> 150],
     [opinion |-> <<"o3">>, reasons |-> <<"r3">>, confidence |-> 0],
     [opinion |-> <<"o1">>, reasons |-> <<"r1">>, confidence |-> 85] >>

\* outcomes of self._llm_config.call(..., response_format=OpinionExtractionResponse):
\* a parsed response, an exception of the call, or a result that does not parse
ExtractionOutcomes ==
  { [kind |-> "ok", opinions |-> SubSeq(OpinionList, 1, n)] : n \in 0..MaxCandidates }
    \cup { [kind |-> "error", opinions |-> <<>>],
           [kind |-> "unparseable", opinions |-> <<>>] }

\* mutant: the reasons are left out of the text
OpinionWithoutReasons(op) == op.opinion

\* f"{op.opinion} (Reasons: {op.reasons})"
OpinionWithReasons(op) == op.opinion \o <<" (Reasons: ">> \o op.reasons \o <<")">>

\* formatted_opinions
FormattedOpinions(ops) ==
  [k \in DOMAIN ops |-> [text |-> OpinionWithReasons(ops[k]),
                         confidence |-> ops[k].confidence]]

\* mutant: a failed extraction yields a placeholder opinion
OnExtractionErrorPlaceholder == << [text |-> <<"unknown">>, confidence |-> 0] >>

\* except Exception: return []
OnExtractionError == <<>>

\* _extract_opinions_from_text, given the outcome of its call
ExtractOpinionsFromText(outcome) ==
  IF outcome.kind = "ok" THEN FormattedOpinions(outcome.opinions)
  ELSE OnExtractionError

\* ------------------------------------- _extract_and_store_opinions_async
\* mutant: the context is taken from the extracted opinion
PutCallContextFromOpinion(task, opinion_dict) ==
  [agent_id |-> task.agent_id,
   content |-> opinion_dict.text,
   context |-> opinion_dict.text,
   event_date |-> "current_time",
   fact_type_override |-> "opinion",
   confidence_score |-> opinion_dict.confidence]

\* mutant: the opinions of every task are written under one agent
PutCallFixedAgent(task, opinion_dict) ==
  [agent_id |-> "a1",
   content |-> opinion_dict.text,
   context |-> <<"formed during thinking about: ", task.query>>,
   event_date |-> "current_time",
   fact_type_override |-> "opinion",
   confidence_score |-> opinion_dict.confidence]

\* the arguments of one put_async call of the store loop
PutCall(task, opinion_dict) ==
  [agent_id |-> task.agent_id,
   content |-> opinion_dict.text,
   context |-> <<"formed during thinking about: ", task.query>>,
   event_date |-> "current_time",
   fact_type_override |-> "opinion",
   confidence_score |-> opinion_dict.confidence]

\* put_async: the Fact the store persists for a call, with its new id
PutAsync(call, id) ==
  [id |-> id, agent_id |-> call.agent_id, text |-> call.content,
   fact_type |-> call.fact_type_override, context |-> call.context,
   event_date |-> Some(call.event_date), activation |-> None,
   confidence |-> Some(call.confidence_score)]

\* if new_opinions: ... the store loop is entered only for a non-empty list
EntersStoreLoop(new_opinions) == new_opinions # <<>>

\* mutant: the exception of put_async leaves the routine
AfterPutErrorRaises == "raised"

\* position of an execution after put_async raised: the except clause around
\* the whole body ends the routine
AfterPutError == "done"

\* the Task Backend starts the handler on an accepted descriptor: the
\* extraction call returns or raises
Extract(i) ==
  /\ submitted[i] # None
  /\ Len(execs) < MaxExec
  /\ \E outcome \in ExtractionOutcomes :
       LET new_opinions == ExtractOpinionsFromText(outcome)
       IN execs' = Append(execs,
            [task |-> i,
             extraction |-> outcome.kind,
             candidates |-> outcome.opinions,
             new_opinions |-> new_opinions,
             idx |-> IF EntersStoreLoop(new_opinions) THEN 1 ELSE 0,
             puts |-> <<>>,
             pc |-> IF EntersStoreLoop(new_opinions) THEN "store" ELSE "done"])
  /\ UNCHANGED mig_vars
  /\ UNCHANGED << llm_config, store, origin, pc, arg, all_results, answer_text,
                  result, error, trace, submitted >>

\* mutant: a put whose text the agent already has does not add a fact
PutDeduplicating(k) ==
  /\ k \in DOMAIN execs
  /\ execs[k].pc = "store"
  /\ LET x == execs[k]
         call == PutCall(submitted[x.task][1], x.new_opinions[x.idx])
         known == \E j \in DOMAIN store : /\ store[j].agent_id = call.agent_id
                                          /\ store[j].text = call.content
     IN \/ /\ IF known
                THEN UNCHANGED << store, origin >>
                ELSE /\ store' = Append(store, PutAsync(call, Len(store) + 1))
                     /\ origin' = Append(origin, x.task)
           /\ execs' = [execs EXCEPT ![k] =
                [@ EXCEPT !.puts = Append(@, call @@ [out |-> "ok"]),
                          !.idx = @ + 1,
                          !.pc = IF x.idx = Len(x.new_opinions) THEN "done" ELSE "store"]]
        \/ /\ execs' = [execs EXCEPT ![k] =
                [@ EXCEPT !.puts = Append(@, call @@ [out |-> "PersistenceError"]),
                          !.pc = AfterPutError]]
           /\ UNCHANGED << store, origin >>
  /\ UNCHANGED mig_vars
  /\ UNCHANGED << llm_config, pc, arg, all_results, answer_text, result, error,
                  trace, submitted >>

\* one iteration of the store loop: put_async persists the fact or raises
Put(k) ==
  /\ k \in DOMAIN execs
  /\ execs[k].pc = "store"
  /\ LET x == execs[k]
         call == PutCall(submitted[x.task][1], x.new_opinions[x.idx])
     IN \/ /\ store' = Append(store, PutAsync(call, Len(store) + 1))
           /\ origin' = Append(origin, x.task)
           /\ execs' = [execs EXCEPT ![k] =
                [@ EXCEPT !.puts = Append(@, call @@ [out |-> "ok"]),
                          !.idx = @ + 1,
                          !.pc = IF x.idx = Len(x.new_opinions) THEN "done" ELSE "store"]]
        \/ /\ execs' = [execs EXCEPT ![k] =
                [@ EXCEPT !.puts = Append(@, call @@ [out |-> "PersistenceError"]),
                          !.pc = AfterPutError]]
           /\ UNCHANGED << store, origin >>
  /\ UNCHANGED mig_vars
  /\ UNCHANGED << llm_config, pc, arg, all_results, answer_text, result, error,
                  trace, submitted >>

\* the steps of the invocations in C and of the Task Backend
NextOf(C) ==
  \/ \E i \in C, a \in Agents : \E q \in QueriesFor(i) : ThinkAsync(i, a, q)
  \/ \E i \in C : Search(i)
  \/ \E i \in C : Generate(i)
  \/ \E i \in C : SubmitTask(i)
  \/ \E i \in C : Return(i)
  \/ \E i \in C : Extract(i)
  \/ \E k \in 1..MaxExec : Put(k)

Next == NextOf(Calls)

\* invocations in flight together, on a store with one fact per agent
Spec == Init /\ [][Next]_vars

\* a single invocation and its task, on a store that holds earlier opinions
OneCall == {1}
NextOne == NextOf(OneCall)
SpecOne == InitOne /\ [][NextOne]_vars

\* ------------------------------------------------------- run_migrations
\* exceptions command.upgrade may raise: alembic's sys.exit, alembic's and the
\* driver's errors, an OSError of a migration script, an interrupt
UpgradeRaises ==
  { [type |-> "SystemExit", code |-> Some("1")],
    [type |-> "SystemExit", code |-> Some("2")],
    [type |-> "CommandError", code |-> None],
    [type |-> "FileNotFoundError", code |-> None],
    [type |-> "KeyboardInterrupt", code |-> None] }

\* the classes an 'except Exception' clause does not catch
BaseExceptionOnly == { "SystemExit", "KeyboardInterrupt", "GeneratorExit" }

\* raise FileNotFoundError(f"alembic.ini not found at {alembic_ini}. ...")
IniNotFound == [type |-> "FileNotFoundError", code |-> None]

\* the exception that leaves run_migrations when e is raised inside its try:
\* except FileNotFoundError: raise; except SystemExit: raise RuntimeError(...
\* exit code) from e; except Exception: raise RuntimeError(...) from e
Handle(e) ==
  IF e.type = "FileNotFoundError"
    THEN [type |-> e.type, message |-> <<>>, cause |-> None]
  ELSE IF e.type = "SystemExit"
    THEN [type |-> "RuntimeError",
          message |-> <<"Database migration failed with exit code ", e.code[1]>>,
          cause |-> Some(e.type)]
  ELSE IF e.type \notin BaseExceptionOnly
    THEN [type |-> "RuntimeError", message |-> <<"Database migration failed">>,
          cause |-> Some(e.type)]
  ELSE [type |-> e.type, message |-> <<>>, cause |-> None]

\* run_migrations(database_url) up to the call of command.upgrade: the test of
\* alembic_ini.exists() and the configuration
RunMigrations(r, database_url) ==
  /\ run[r].pc = "idle"
  /\ IF ~alembic_ini
       THEN run' = [run EXCEPT ![r] =
              [pc |-> "raised", database_url |-> Some(database_url),
               upgrade_called |-> FALSE, exc |-> Some(Handle(IniNotFound))]]
       ELSE run' = [run EXCEPT ![r] =
              [pc |-> "upgrade", database_url |-> Some(database_url),
               upgrade_called |-> FALSE, exc |-> None]]
  /\ UNCHANGED << alembic_ini, db_revision >>
  /\ UNCHANGED think_vars

\* command.upgrade(alembic_cfg, "head") returns or raises
Upgrade(r) ==
  /\ run[r].pc = "upgrade"
  /\ \/ /\ db_revision' = "head"
        /\ run' = [run EXCEPT ![r] =
             [@ EXCEPT !.pc = "returned", !.upgrade_called = TRUE]]
     \/ \E e \in UpgradeRaises :
          /\ run' = [run EXCEPT ![r] =
               [@ EXCEPT !.pc = "raised", !.upgrade_called = TRUE,
                         !.exc = Some(Handle(e))]]
          /\ UNCHANGED db_revision
  /\ UNCHANGED alembic_ini
  /\ UNCHANGED think_vars

\* the instances start and run the migrations; no call of think is made yet
InitMig ==
  /\ InitWith(SeedStore)
  /\ alembic_ini \in BOOLEAN
  /\ db_revision \in { "base", "head" }
  /\ run = [r \in Runs |-> RunIdle]

NextMig ==
  \/ \E r \in Runs, u \in DatabaseUrls : RunMigrations(r, u)
  \/ \E r \in Runs : Upgrade(r)

SpecMig == InitMig /\ [][NextMig]_vars

\* ------------------------------------------------------------ properties
Returned(i) == pc[i] = "done"
Failed(i) == pc[i] = "failed"

\* the entries of the history of invocation i for one kind of call
Ops(i, op) == SelectSeq(trace[i], LAMBDA c : c.op = op)

\* the call of kind op of invocation i was made and raised
OpFailed(i, op) == \E n \in DOMAIN trace[i] : trace[i][n].op = op /\ trace[i][n].out # "ok"

\* the executions of the descriptor of invocation i
ExecsOf(i) == { k \in DOMAIN execs : execs[k].task = i }

BasedOnKeys == { "agent", "world", "opinion" }

C2_PartitionExact ==
  \A i \in Calls : Returned(i) =>
    LET rs == all_results[i]
        b == result[i][1].based_on
        Pos(f) == CHOOSE n \in DOMAIN rs : rs[n] = f
    IN /\ \A n \in DOMAIN rs :
            Cardinality({ km \in BasedOnKeys \X (1..Len(rs)) :
                            /\ km[2] \in DOMAIN b[km[1]]
                            /\ b[km[1]][km[2]] = rs[n] }) = 1
       /\ \A key \in BasedOnKeys : \A m \in DOMAIN b[key] :
            /\ \E n \in DOMAIN rs : rs[n] = b[key][m]
            /\ \A m2 \in DOMAIN b[key] : m < m2 => Pos(b[key][m]) < Pos(b[key][m2])

\* a returned think whose retrieval ranked two facts of one type against their
\* order in the store
C2_Witness ==
  \E i \in Calls : /\ Returned(i)
                   /\ Len(all_results[i]) = 2
                   /\ all_results[i][1].fact_type = all_results[i][2].fact_type
                   /\ all_results[i][1].id > all_results[i][2].id

\* C3: based_on has exactly the keys agent, world and opinion, and every fact
\* listed under a key has that key as its fact_type.
C3_ThreeKeysTyped ==
  \A i \in Calls : result[i] # None =>
    LET b == result[i][1].based_on
    IN /\ DOMAIN b = BasedOnKeys
       /\ \A key \in BasedOnKeys : \A m \in DOMAIN b[key] : b[key][m].fact_type = key

\* a returned think with facts under two keys and one key empty
C3_Witness ==
  \E i \in Calls : /\ result[i] # None
                   /\ result[i][1].based_on.agent # <<>>
                   /\ result[i][1].based_on.opinion # <<>>
                   /\ result[i][1].based_on.world = <<>>

\* C4: when retrieval and generation succeed and submit_task fails, the failure
\* is swallowed: no error reaches the caller and think returns the ThinkResult.
C4_SubmitFailureSwallowed ==
  \A i \in Calls : OpFailed(i, "submit") => error[i] = None /\ ~Failed(i)

\* C5: when the generation call fails, think ends with an error, returns no
\* ThinkResult and submits no form_opinion task.
C5_GenerationFailure ==
  \A i \in Calls : OpFailed(i, "llm") =>
    /\ Failed(i)
    /\ error[i] # None
    /\ result[i] = None
    /\ Ops(i, "submit") = <<>>
    /\ submitted[i] = None

\* a think whose generation call raised after a retrieval that returned facts
C5_Witness ==
  \E i \in Calls : /\ OpFailed(i, "llm")
                   /\ Len(trace[i]) = 2
                   /\ trace[i][1].out = "ok"

\* C6: when the retrieval call fails, the caller gets the retriever's error
\* unmodified; no generation call, no submission and no ThinkResult follow.
C6_RetrievalFailure ==
  \A i \in Calls : OpFailed(i, "search") =>
    /\ Failed(i)
    /\ error[i] = Some(trace[i][1].out)
    /\ Len(trace[i]) = 1
    /\ result[i] = None
    /\ submitted[i] = None

\* a think that ended with the rate-limit error its retrieval call raised
C6_Witness ==
  \E i \in Calls : /\ OpFailed(i, "search")
                   /\ Failed(i)
                   /\ error[i] = Some("RateLimitError")

\* C7: without a configured LLM gateway think fails with the configuration
\* error before any I/O: no retrieval, no generation, no submission, no store write.
C7_ConfigurationFirst ==
  \A i \in Calls : (llm_config = None /\ pc[i] # "idle") =>
    /\ Failed(i)
    /\ error[i] = Some("ValueError")
    /\ trace[i] = <<>>
    /\ submitted[i] = None
    /\ result[i] = None
    /\ \A k \in DOMAIN store : origin[k] = 0

\* a think called without a configuration that has failed
C7_Witness ==
  /\ llm_config = None
  /\ \E i \in Calls : Failed(i) /\ arg[i] # None

\* C8: once the submission is accepted the return of think is possible whatever
\* the state of the submitted task: not started, running or finished.
C8_ReturnNeverWaits ==
  \A i \in Calls : pc[i] = "return" => ENABLED Return(i)

\* a think that has returned while one execution of its task has finished and
\* another one is still storing
C8_Witness ==
  \E i \in Calls :
    /\ Returned(i) /\ result[i] # None
    /\ \E k \in ExecsOf(i) : execs[k].pc = "store"
    /\ \E k \in ExecsOf(i) : execs[k].pc = "done"

\* C9: two thinks with the same retrieval result and the same answer return the
\* same ThinkResult, however often the Task Backend has executed their tasks.
C9_ExecutionsInvisible ==
  \A i, j \in Calls :
    (Returned(i) /\ Returned(j) /\ all_results[i] = all_results[j]
       /\ answer_text[i] = answer_text[j])
    => result[i] = result[j]

\* the same retrieval and answer, one task never executed, the other executed
\* twice before its think returned
C9_Witness ==
  \E i, j \in Calls :
    /\ Returned(i) /\ Returned(j)
    /\ all_results[i] = all_results[j]
    /\ answer_text[i] = answer_text[j]
    /\ ExecsOf(i) = {}
    /\ Cardinality(ExecsOf(j)) >= 2
    /\ trace[j][Len(trace[j])].persisted

\* C10: when the extraction call fails or its result does not parse, the
\* extraction yields the empty list, and the routine ends without raising and
\* without a put call.
C10_ExtractionFailureContained ==
  \A k \in DOMAIN execs : execs[k].extraction \in { "error", "unparseable" } =>
    /\ execs[k].new_opinions = <<>>
    /\ execs[k].pc = "done"
    /\ execs[k].puts = <<>>

\* one execution whose extraction call raised and one whose result did not parse
C10_Witness ==
  \E k, l \in DOMAIN execs : /\ execs[k].extraction = "error"
                             /\ execs[l].extraction = "unparseable"

\* the context template of the store loop, for a query
ContextFor(query) == <<"formed during thinking about: ", query>>

\* the put call of execution k for its n-th candidate raised
PutFailedFor(k, n) == n \in DOMAIN execs[k].puts /\ execs[k].puts[n].out # "ok"

\* the put call of execution k for its n-th candidate persisted the fact
PersistedFor(k, n) == n \in DOMAIN execs[k].puts /\ execs[k].puts[n].out = "ok"

\* C11: in one execution over a batch of candidates, a failed put does not stop
\* the batch: every candidate other than the failing one ends up persisted.
C11_RemainingStillPersisted ==
  \A k \in DOMAIN execs : execs[k].pc = "done" =>
    \A n \in DOMAIN execs[k].new_opinions :
      ~PutFailedFor(k, n) => PersistedFor(k, n)

\* C12: every put call of the task has fact_type_override 'opinion' and the
\* context template filled with the query of its descriptor, and so has every
\* fact the task persisted, whatever the extraction returned.
C12_OpinionTypeAndContext ==
  /\ \A k \in DOMAIN execs : \A m \in DOMAIN execs[k].puts :
        /\ execs[k].puts[m].fact_type_override = "opinion"
        /\ execs[k].puts[m].context = ContextFor(arg[execs[k].task][1].query)
  /\ \A j \in DOMAIN store : origin[j] # 0 =>
        /\ store[j].fact_type = "opinion"
        /\ store[j].context = ContextFor(arg[origin[j]][1].query)

\* a persisted fact made from the second candidate of a batch
C12_Witness ==
  \E j \in DOMAIN store : /\ origin[j] # 0
                          /\ store[j].text = <<"o2", " (Reasons: ", "r2", ")">>

\* the facts of a ThinkResult, over its three partitions
FactsOf(r) == Range(r.based_on.agent) \cup Range(r.based_on.world)
                \cup Range(r.based_on.opinion)

\* C13: no fact persisted by the task an invocation submitted is among the
\* facts that invocation retrieved, gave to its generation call or returned in
\* based_on; its task writes only once its retrieval is over.
C13_OwnOpinionsNeverSurface ==
  \A i \in Calls :
    /\ \A n \in DOMAIN all_results[i] : origin[all_results[i][n].id] # i
    /\ result[i] # None => \A f \in FactsOf(result[i][1]) : origin[f.id] # i
    /\ PersistedBy(i) # {} => pc[i] \in { "return", "done" }

\* an invocation that returned after its task had persisted an opinion, and a
\* later invocation whose based_on holds that opinion
C13_Witness ==
  \E i, j \in Calls :
    /\ i # j
    /\ Returned(i) /\ trace[i][Len(trace[i])].persisted
    /\ result[j] # None
    /\ \E f \in Range(result[j][1].based_on.opinion) : origin[f.id] = i

\* the put calls that persisted a fact, over the first n executions
RECURSIVE OkPuts(_)
OkPuts(n) ==
  IF n = 0 THEN 0
  ELSE OkPuts(n - 1) + Len(SelectSeq(execs[n].puts, LAMBDA c : c.out = "ok"))

\* C14: a think that returned a ThinkResult made exactly one retrieval call,
\* for the three fact types together, one generation call and one submission;
\* the store holds its initial facts and what the put calls of the task wrote.
C14_OneCallEachNoWrite ==
  /\ \A i \in Calls : result[i] # None =>
        /\ Len(Ops(i, "search")) = 1
        /\ Ops(i, "search")[1].fact_type = <<"agent", "world", "opinion">>
        /\ Len(Ops(i, "llm")) = 1
        /\ Len(Ops(i, "submit")) = 1
  /\ SubSeq(store, 1, Len(RichStore)) = RichStore
  /\ Len(store) = Len(RichStore) + OkPuts(Len(execs))
  /\ \A k \in DOMAIN store : k > Len(RichStore) <=> origin[k] # 0

\* a think that returned with opinions in based_on while its task has started
\* and the store still is what it was at the start
C14_Witness ==
  \E i \in Calls : /\ result[i] # None
                   /\ result[i][1].based_on.opinion # <<>>
                   /\ store = RichStore
                   /\ execs # <<>>

\* C15: an empty retrieval result does not end think: after it the generation
\* call is issued, no failure comes from anything but a raising call or the
\* missing configuration, and the think returns a ThinkResult with the three
\* partitions empty, after the generation call and the submission.
C15_EmptyRetrievalSucceeds ==
  \A i \in Calls :
    /\ (Len(trace[i]) = 1 /\ trace[i][1].out = "ok") => pc[i] = "generate"
    /\ Failed(i) => \/ llm_config = None
                    \/ \E op \in { "search", "llm", "submit" } : OpFailed(i, op)
    /\ (Returned(i) /\ all_results[i] = <<>>) =>
         /\ result[i] # None
         /\ result[i][1].based_on =
              [agent |-> <<>>, world |-> <<>>, opinion |-> <<>>]
         /\ Len(Ops(i, "llm")) = 1
         /\ submitted[i] # None

\* a think that returned after a retrieval that gave nothing for an agent that
\* has facts in the store
C15_Witness ==
  \E i \in Calls : /\ Returned(i)
                   /\ result[i] # None
                   /\ all_results[i] = <<>>
                   /\ arg[i][1].agent_id = "a1"

\* C16: an answer that is empty after trimming makes think fail: no ThinkResult
\* has an empty text and no submitted descriptor carries an empty answer.
C16_EmptyAnswerFails ==
  \A i \in Calls :
    /\ result[i] # None => result[i][1].text # <<>>
    /\ submitted[i] # None => submitted[i][1].answer_text # <<>>

\* a put call of execution k raised
SomePutFailed(k) == \E n \in DOMAIN execs[k].puts : PutFailedFor(k, n)

\* C17: no execution of the background routine ends by raising: after a failed
\* extraction or a failed put it has ended normally; and the error of a think,
\* if any, is the configuration error or the one its own awaited call raised.
C17_BackgroundNeverRaises ==
  /\ \A k \in DOMAIN execs :
        /\ execs[k].pc \in { "store", "done" }
        /\ (execs[k].extraction # "ok" \/ SomePutFailed(k)) => execs[k].pc = "done"
  /\ \A i \in Calls : error[i] # None =>
        \/ trace[i] = <<>> /\ error[i] = Some("ValueError")
        \/ trace[i] # <<>> /\ error[i] = Some(trace[i][Len(trace[i])].out)

\* a think that returned without error while one execution of its task ended
\* on a failed put and another on a failed extraction
C17_Witness ==
  \E i \in Calls :
    /\ Returned(i) /\ error[i] = None
    /\ \E k, l \in ExecsOf(i) : /\ SomePutFailed(k) /\ execs[k].pc = "done"
                                /\ execs[l].extraction = "error"

\* the awaited steps of think_async and its return, in program order
StepOrder == <<"search", "llm", "submit", "return">>

\* the position of think at which the n-th step is pending
PendingAt == <<"search", "generate", "submit", "return">>

\* C18: the steps of one think happen in the order retrieval, generation,
\* submission, return; a step is issued only after the one before it has
\* returned, and the one pending step is the one after the last finished step.
C18_FixedStepOrder ==
  \A i \in Calls :
    /\ Len(trace[i]) <= Len(StepOrder)
    /\ \A n \in DOMAIN trace[i] :
         /\ trace[i][n].op = StepOrder[n]
         /\ n > 1 => trace[i][n - 1].out = "ok"
    /\ \A n \in DOMAIN PendingAt : pc[i] = PendingAt[n] =>
         /\ Len(trace[i]) = n - 1
         /\ n > 1 => trace[i][n - 1].out = "ok"
    /\ Returned(i) => Len(trace[i]) = Len(StepOrder)

\* a think that went through its four steps on a retrieval that gave two facts
C18_Witness ==
  \E i \in Calls : /\ Returned(i)
                   /\ Len(trace[i]) = 4
                   /\ Len(all_results[i]) = 2
                   /\ answer_text[i] # <<>>

\* C19: an execution that ended with no failed put has made one put call per
\* candidate of its extraction, in their order, each with the content
\* "{opinion} (Reasons: {reasons})" of its candidate; none for no candidate.
C19_OnePutPerCandidate ==
  \A k \in DOMAIN execs : (execs[k].pc = "done" /\ ~SomePutFailed(k)) =>
    /\ Len(execs[k].puts) = Len(execs[k].candidates)
    /\ \A n \in DOMAIN execs[k].puts :
         execs[k].puts[n].content =
           execs[k].candidates[n].opinion \o <<" (Reasons: ">>
             \o execs[k].candidates[n].reasons \o <<")">>

\* one execution that persisted two candidates and one whose extraction
\* returned no candidate
C19_Witness ==
  \E k, l \in DOMAIN execs :
    /\ execs[k].pc = "done" /\ ~SomePutFailed(k) /\ Len(execs[k].puts) = 2
    /\ execs[l].pc = "done" /\ execs[l].extraction = "ok"
    /\ execs[l].candidates = <<>>

\* C20: every candidate the extraction returns and every confidence persisted
\* with an opinion is within [0,1] (0..100 hundredths).
C20_ConfidenceInRange ==
  /\ \A k \in DOMAIN execs : \A n \in DOMAIN execs[k].new_opinions :
        execs[k].new_opinions[n].confidence \in 0..100
  /\ \A j \in DOMAIN store : origin[j] # 0 => store[j].confidence[1] \in 0..100

\* a text with no whitespace at either end
Trimmed(s) == s = <<>> \/ (~IsSpace(s[1]) /\ ~IsSpace(s[Len(s)]))

\* C21: the submitted descriptor has type 'form_opinion', the agent_id and the
\* query given to think, and an answer_text that is trimmed and equal to the
\* text of the ThinkResult the same invocation returns.
C21_DescriptorMatchesResult ==
  \A i \in Calls : submitted[i] # None =>
    /\ DOMAIN submitted[i][1] = { "type", "agent_id", "answer_text", "query" }
    /\ submitted[i][1].type = "form_opinion"
    /\ submitted[i][1].agent_id = arg[i][1].agent_id
    /\ submitted[i][1].query = arg[i][1].query
    /\ Trimmed(submitted[i][1].answer_text)
    /\ result[i] # None => submitted[i][1].answer_text = result[i][1].text

\* a think for the second agent that returned a non-empty answer
C21_Witness ==
  \E i \in Calls : /\ result[i] # None
                   /\ submitted[i] # None
                   /\ arg[i][1].agent_id = "a2"
                   /\ result[i][1].text = <<"I", " ", "believe">>

\* the facts written by tasks that are stored for agent a with text c
StoredFor(a, c) ==
  { j \in DOMAIN store : origin[j] # 0 /\ store[j].agent_id = a /\ store[j].text = c }

\* the put calls for agent a with content c that persisted a fact
OkPutsFor(a, c) ==
  { kn \in (DOMAIN execs) \X (1..MaxCandidates) :
      /\ PersistedFor(kn[1], kn[2])
      /\ execs[kn[1]].puts[kn[2]].agent_id = a
      /\ execs[kn[1]].puts[kn[2]].content = c }

\* the texts that were put or are stored
WrittenTexts ==
  { store[j].text : j \in DOMAIN store } \cup
  UNION { { execs[k].puts[n].content : n \in DOMAIN execs[k].puts } : k \in DOMAIN execs }

\* C22: persistence is append-only: the initial facts stay as they were, every
\* fact keeps its place, and for every agent and text there are as many stored
\* facts as put calls that succeeded, so that duplicates are kept and no write
\* is lost; an execution with no failed put has put every candidate.
C22_AppendOnly ==
  /\ SubSeq(store, 1, Len(SeedStore)) = SeedStore
  /\ \A j \in DOMAIN store : store[j].id = j
  /\ \A a \in Agents, c \in WrittenTexts :
        Cardinality(StoredFor(a, c)) = Cardinality(OkPutsFor(a, c))
  /\ \A k \in DOMAIN execs : (execs[k].pc = "done" /\ ~SomePutFailed(k)) =>
        Len(execs[k].puts) = Len(execs[k].new_opinions)

\* the tasks of two invocations for one agent have written in turns, without a
\* failed put, and both have persisted the same text
C22_Witness ==
  /\ \A k \in DOMAIN execs : ~SomePutFailed(k)
  /\ \E a, b, c \in DOMAIN store :
       /\ a < b /\ b < c
       /\ origin[a] # 0 /\ origin[b] # 0
       /\ origin[a] = origin[c] /\ origin[a] # origin[b]
       /\ store[a].agent_id = store[b].agent_id
       /\ store[a].text = store[b].text

\* C23: a think for agent A asks the retrieval for A, gets and returns only
\* facts of A, submits a descriptor carrying A, and every put call and every
\* fact written by the executions of that descriptor is under A.
C23_AgentScoped ==
  \A i \in Calls : arg[i] # None =>
    LET A == arg[i][1].agent_id
    IN /\ \A n \in DOMAIN trace[i] :
            trace[i][n].op = "search" => trace[i][n].agent_id = A
       /\ \A n \in DOMAIN all_results[i] : store[all_results[i][n].id].agent_id = A
       /\ result[i] # None =>
            \A f \in FactsOf(result[i][1]) : store[f.id].agent_id = A
       /\ submitted[i] # None => submitted[i][1].agent_id = A
       /\ \A k \in ExecsOf(i) : \A n \in DOMAIN execs[k].puts :
            execs[k].puts[n].agent_id = A
       /\ \A j \in PersistedBy(i) : store[j].agent_id = A

\* two invocations for different agents that both returned facts, each after
\* its own task had written to the store
C23_Witness ==
  \E i, j \in Calls :
    /\ result[i] # None /\ result[j] # None
    /\ arg[i][1].agent_id # arg[j][1].agent_id
    /\ all_results[i] # <<>> /\ all_results[j] # <<>>
    /\ PersistedBy(i) # {} /\ PersistedBy(j) # {}
    /\ trace[i][Len(trace[i])].persisted /\ trace[j][Len(trace[j])].persisted

\* the step at which a failed think ended
FailedStep(i) == IF trace[i] = <<>> THEN "config" ELSE trace[i][Len(trace[i])].op

\* C24: the error of a failed think tells which of the configuration check,
\* the retrieval call and the generation call failed: two thinks that failed
\* with the same error failed at the same step.
C24_FailuresDistinguishable ==
  \A i, j \in Calls :
    ( /\ Failed(i) /\ Failed(j)
      /\ FailedStep(i) \in { "config", "search", "llm" }
      /\ FailedStep(j) \in { "config", "search", "llm" }
      /\ error[i] = error[j] )
    => FailedStep(i) = FailedStep(j)

\* C25: run_migrations ends by returning after the upgrade, by raising
\* FileNotFoundError when alembic.ini is missing, with no upgrade run, or by
\* raising RuntimeError; nothing the upgrade raises escapes as such.
C25_ThreeOutcomes ==
  \A r \in Runs :
    /\ run[r].pc = "returned" => run[r].upgrade_called /\ run[r].exc = None
    /\ run[r].pc = "raised" =>
         /\ run[r].exc # None
         /\ \/ /\ run[r].exc[1].type = "FileNotFoundError"
               /\ ~alembic_ini
               /\ ~run[r].upgrade_called
            \/ run[r].exc[1].type = "RuntimeError"

====
